---- MODULE Spec2Model ----
(***************************************************************************)
(* A model of beancount/reports/convert_reports.py: the Ledger and HLedger *)
(* exporters, their per-directive printers, the posting classifier and the *)
(* currency quoter.                                                        *)
(*                                                                         *)
(* Text is modelled at the character level: a string is a sequence of      *)
(* one-character strings, so that padding, stripping, quoting and the      *)
(* line structure of the output are computed as the code computes them.    *)
(***************************************************************************)
EXTENDS Integers, Sequences, FiniteSets, TLC

VARIABLES
    dialect,     \* "ledger" (render_ledger) or "hledger" (render_hledger)
    entries,     \* the input sequence of directives
    idx,         \* position of the for-loop of render_ledger / render_hledger
    pc,          \* control point of the exporter
    orig,        \* the Transaction handed to LedgerPrinter.Transaction
    entry,       \* the local `entry` of Transaction after fill_residual_posting
    backref,     \* what posting.entry refers to for the postings of `entry`
    pidx,        \* position of the for-loop over entry.postings
    oss,         \* the io.StringIO of the current __call__
    file,        \* the output sink
    plines,      \* the lines written by the Posting calls of the current Transaction
    pseen,       \* the postings handed to the Posting calls of the current Transaction
    log,         \* the calls made while rendering the current Transaction, in order
    rendered,    \* the records returned by the printer so far, with their directive
    raised,      \* the exception that ended the run, or None
    qs,          \* quote_currency: the input string
    qout         \* quote_currency: the results of the successive applications

vars == <<dialect, entries, idx, pc, orig, entry, backref, pidx, oss, file,
          plines, pseen, log, rendered, raised, qs, qout>>

\* An optional value is a sequence: empty for None, <<x>> for the value x.
None == <<>>
Some(x) == <<x>>
\* no exception
NoExc == "ok"

----------------------------------------------------------------------------
(* Bounds of the model.                                                    *)

\* longest string given to quote_currency
MaxQLen == 4
\* number of successive applications of quote_currency
MaxQuoteApps == 2
\* most directives in one exporter run
MaxEntries == 2
\* most postings of an input Transaction
MaxPostings == 3

----------------------------------------------------------------------------
(* Characters and strings.                                                 *)

Upper == {"A", "B", "C", "D", "E", "F", "G", "H", "I", "J", "K", "L", "M",
          "N", "O", "P", "Q", "R", "S", "T", "U", "V", "W", "X", "Y", "Z"}

Lower == {"a", "b", "c", "d", "e", "f", "g", "h", "i", "j", "k", "l", "m",
          "n", "o", "p", "q", "r", "s", "t", "u", "v", "w", "x", "y", "z"}

Digit == {"0", "1", "2", "3", "4", "5", "6", "7", "8", "9"}

\* The pattern is a str pattern, so \w and \b follow Unicode: besides
\* [a-zA-Z0-9_], every letter and every numeric character is a word
\* character. A character of this module's strings lies in U+0000..U+00FF;
\* these are the word characters above U+007F.
Latin1Word == {"ª", "²", "³", "µ", "¹", "º", "¼", "½", "¾", "À", "Á", "Â", "Ã",
              "Ä", "Å", "Æ", "Ç", "È", "É", "Ê", "Ë", "Ì", "Í", "Î", "Ï", "Ð",
              "Ñ", "Ò", "Ó", "Ô", "Õ", "Ö", "Ø", "Ù", "Ú", "Û", "Ü", "Ý", "Þ",
              "ß", "à", "á", "â", "ã", "ä", "å", "æ", "ç", "è", "é", "ê", "ë",
              "ì", "í", "î", "ï", "ð", "ñ", "ò", "ó", "ô", "õ", "ö", "ø", "ù",
              "ú", "û", "ü", "ý", "þ", "ÿ"}

\* \w of the re module
WordChar == Upper \cup Lower \cup Digit \cup {"_"} \cup Latin1Word

\* the characters str.rstrip() removes, among U+0000..U+00FF: the ASCII
\* whitespace \t \n \v \f \r and space, the separators U+001C..U+001F,
\* NEL (U+0085) and the no-break space (U+00A0)
Whitespace == {" ", "\t", "\n", "", "\f", "\r",
               "", "", "", "", "", " "}

NL == <<"\n">>

Spaces(n) == [i \in 1..n |-> " "]

\* '{:w}'.format(s) and '{:<w}'.format(s) for a string s
LJust(s, w) == IF Len(s) >= w THEN s ELSE s \o Spaces(w - Len(s))

\* '{:>w}'.format(s)
RJust(s, w) == IF Len(s) >= w THEN s ELSE Spaces(w - Len(s)) \o s

\* s.rstrip(): s up to its last character that is not whitespace
RStrip(s) ==
    LET keep == {i \in 1..Len(s) : s[i] \notin Whitespace}
    IN  IF keep = {} THEN <<>>
        ELSE SubSeq(s, 1, CHOOSE i \in keep : \A j \in keep : j <= i)

RECURSIVE LStripChar(_, _)
LStripChar(s, c) ==
    IF s # <<>> /\ s[1] = c THEN LStripChar(Tail(s), c) ELSE s

RECURSIVE RStripChar(_, _)
RStripChar(s, c) ==
    IF s # <<>> /\ s[Len(s)] = c THEN RStripChar(SubSeq(s, 1, Len(s) - 1), c) ELSE s

RECURSIVE Join(_, _)
Join(strs, sep) ==
    IF strs = <<>> THEN <<>>
    ELSE IF Len(strs) = 1 THEN strs[1]
    ELSE strs[1] \o sep \o Join(Tail(strs), sep)

----------------------------------------------------------------------------
(* quote and quote_currency.                                               *)

\* the character class [A-Z0-9\'\.\_\-] of the pattern
TokenMid == Upper \cup Digit \cup {"'", ".", "_", "-"}

\* the character class [A-Z0-9] that ends the pattern
TokenEnd == Upper \cup Digit

\* the most characters {0,10} lets the middle of a token take
TokenMidMax == 10

IsWord(s, i) == i >= 1 /\ i <= Len(s) /\ s[i] \in WordChar

\* \b between s[i-1] and s[i]
Boundary(s, i) == IsWord(s, i - 1) # IsWord(s, i)

\* the pattern matches at i with a middle of k characters
MatchesWith(s, i, k) ==
    /\ i + k + 1 <= Len(s)
    /\ Boundary(s, i)
    /\ s[i] \in Upper
    /\ \A j \in (i + 1)..(i + k) : s[j] \in TokenMid
    /\ s[i + k + 1] \in TokenEnd
    /\ Boundary(s, i + k + 2)

\* the index of the last character of the match that starts at i (the
\* quantifier is greedy: the longest middle that lets the rest match), or 0
MatchEnd(s, i) ==
    LET ks == {k \in 0..TokenMidMax : MatchesWith(s, i, k)}
    IN  IF ks = {} THEN 0
        ELSE i + 1 + (CHOOSE k \in ks : \A k2 \in ks : k2 <= k)

quote(currency) ==
    IF \E i \in 1..Len(currency) : currency[i] \in Digit \cup {"."}
    THEN <<"\"">> \o currency \o <<"\"">>
    ELSE currency

\* re.sub from position pos on: the leftmost match is replaced, the text
\* before it is copied, and the search goes on after the match
RECURSIVE SubFrom(_, _)
SubFrom(s, pos) ==
    LET starts == {i \in pos..Len(s) : MatchEnd(s, i) # 0}
    IN  IF starts = {} THEN SubSeq(s, pos, Len(s))
        ELSE LET b == CHOOSE i \in starts : \A j \in starts : i <= j
                 e == MatchEnd(s, b)
             IN  SubSeq(s, pos, b - 1) \o quote(SubSeq(s, b, e)) \o SubFrom(s, e + 1)

quote_currency(string) == SubFrom(string, 1)

----------------------------------------------------------------------------
(* Dates, amounts and positions. The classes Amount and Position live in   *)
(* beancount.core; their string forms are taken from the specification.    *)

DigitChars == <<"0", "1", "2", "3", "4", "5", "6", "7", "8", "9">>

\* the decimal digits of n, zero-padded to w places
RECURSIVE ZeroPad(_, _)
ZeroPad(n, w) ==
    IF w = 0 THEN <<>>
    ELSE ZeroPad(n \div 10, w - 1) \o <<DigitChars[(n % 10) + 1]>>

\* the decimal digits of n >= 1, with no padding
RECURSIVE Decimal(_)
Decimal(n) ==
    IF n < 10 THEN <<DigitChars[n + 1]>>
    ELSE Decimal(n \div 10) \o <<DigitChars[(n % 10) + 1]>>

\* '{e.date:%Y/%m/%d}': %Y is the year as the C library prints it, with no
\* leading zeros (999/01/02); %m and %d are two digits
DateStr(date) ==
    Decimal(date.y) \o <<"/">> \o ZeroPad(date.m, 2) \o <<"/">> \o ZeroPad(date.d, 2)

\* str(amount) and amount.str(MAXDIGITS_PRINTER): '<number> <currency>'
AmountStr(a) == a.number \o <<" ">> \o a.currency

\* position.strs(): the amount, and the cost between braces when held at cost
PositionStrs(position) ==
    <<AmountStr(position.units),
      IF position.cost # None
      THEN <<"{">> \o AmountStr(position.cost[1]) \o <<"}">>
      ELSE <<>>>>

----------------------------------------------------------------------------
(* postings_by_type.                                                       *)

AttributeError == "AttributeError"
AssertionError == "AssertionError"

HasCost(posting) == posting.position[1].cost # None
HasPriceOnly(posting) == posting.position[1].cost = None /\ posting.price # None
IsSimple(posting) == posting.position[1].cost = None /\ posting.price = None

\* The tests `if posting.position.lot.cost` and `elif posting.price` are truth
\* tests of Amount objects (beancount.core.amount); an Amount that is present
\* is taken to be true, as the specification's "non-null" says.

\* postings_by_type with the two tests in the other order: a Price is looked
\* at before the cost
PostingsByTypePriceFirst(e) ==
    IF \E i \in 1..Len(e.postings) : e.postings[i].position = None
    THEN [exc |-> AttributeError, simple |-> <<>>, at_price |-> <<>>, at_cost |-> <<>>]
    ELSE [exc      |-> NoExc,
          simple   |-> SelectSeq(e.postings, IsSimple),
          at_price |-> SelectSeq(e.postings, LAMBDA p : p.price # None),
          at_cost  |-> SelectSeq(e.postings, LAMBDA p : p.price = None /\ HasCost(p))]

\* The loop reads posting.position.lot.cost of every posting: a posting whose
\* position is None ends the call with an AttributeError.
postings_by_type(e) ==
    IF \E i \in 1..Len(e.postings) : e.postings[i].position = None
    THEN [exc |-> AttributeError, simple |-> <<>>, at_price |-> <<>>, at_cost |-> <<>>]
    ELSE [exc      |-> NoExc,
          simple   |-> SelectSeq(e.postings, IsSimple),
          at_price |-> SelectSeq(e.postings, HasPriceOnly),
          at_cost  |-> SelectSeq(e.postings, HasCost)]

----------------------------------------------------------------------------
(* The Residual Balancer, beancount.core.interpolate.fill_residual_posting *)
(* (an external collaborator): it returns the transaction unchanged, or a  *)
(* new transaction with one more posting, on the rounding account.         *)

ROUNDING_ACCOUNT ==
    <<"E", "q", "u", "i", "t", "y", ":", "R", "o", "u", "n", "d", "i", "n", "g">>

Residual == [number |-> <<"0", ".", "0", "1">>, currency |-> <<"U", "S", "D">>]

ResidualPosting(account) ==
    [flag |-> None, account |-> Some(account),
     position |-> Some([units |-> Residual, cost |-> None]), price |-> None]

fill_residual_posting(e, account_rounding) ==
    {e, [e EXCEPT !.postings = Append(@, ResidualPosting(account_rounding))]}

----------------------------------------------------------------------------
(* LedgerPrinter and HLedgerPrinter.                                       *)

AccountWidth == 62
FlagPostingWidth == 64
FieldWidth == 16
OpenAccountWidth == 47
PriceCurrencyWidth == 16

\* flag_posting = '{:}{:62}'.format(flag, posting.account)
FlagPosting(posting) ==
    (IF posting.flag # None THEN <<posting.flag[1], " ">> ELSE <<>>)
        \o LJust(posting.account[1], AccountWidth)

\* '  {:64} {:>16} {:>16} {:>16}'.format(...).rstrip(), then '\n'
LedgerPostingStr(flag_posting, amount_str, cost_str, price_str) ==
    RStrip(<<" ", " ">> \o LJust(flag_posting, FlagPostingWidth)
           \o <<" ">> \o RJust(quote_currency(amount_str), FieldWidth)
           \o <<" ">> \o RJust(quote_currency(cost_str), FieldWidth)
           \o <<" ">> \o RJust(quote_currency(price_str), FieldWidth)) \o NL

\* '  {:64} {:>16} {:>16}'.format(...).rstrip(), then '\n'
HLedgerPostingStr(flag_posting, amount_str, cost_str) ==
    RStrip(<<" ", " ">> \o LJust(flag_posting, FlagPostingWidth)
           \o <<" ">> \o RJust(quote_currency(amount_str), FieldWidth)
           \o <<" ">> \o RJust(quote_currency(cost_str), FieldWidth)) \o NL

PriceStr(amt) == <<"@", " ">> \o AmountStr(amt)

Raises(exc, classified) == [exc |-> exc, text |-> <<>>, classified |-> classified]
Writes(text, classified) == [exc |-> NoExc, text |-> text, classified |-> classified]

\* LedgerPrinter.Posting; pentry is posting.entry. The result tells what was
\* written, or the exception raised, and whether postings_by_type was called.
LedgerPosting(posting, pentry) ==
    IF posting.account = None THEN Raises(AssertionError, FALSE)
    ELSE
    LET strs == IF posting.position # None
                THEN PositionStrs(posting.position[1])
                ELSE <<<<>>, <<>>>>
    IN  IF posting.price # None
        THEN Writes(LedgerPostingStr(FlagPosting(posting), strs[1], strs[2],
                                     PriceStr(posting.price[1])), FALSE)
        ELSE LET by == postings_by_type(pentry)
             IN  IF by.exc # NoExc THEN Raises(by.exc, TRUE)
                 ELSE IF by.at_price # <<>> /\ by.at_cost # <<>>
                 THEN IF posting.position = None THEN Raises(AttributeError, TRUE)
                      ELSE IF posting.position[1].cost # None
                      THEN Writes(LedgerPostingStr(FlagPosting(posting), strs[1], strs[2],
                                                   PriceStr(posting.position[1].cost[1])), TRUE)
                      ELSE Writes(LedgerPostingStr(FlagPosting(posting), strs[1], strs[2],
                                                   <<>>), TRUE)
                 ELSE Writes(LedgerPostingStr(FlagPosting(posting), strs[1], strs[2],
                                              <<>>), TRUE)

\* HLedgerPrinter.Posting: price_str is computed and not written.
HLedgerPosting(posting, pentry) ==
    IF posting.account = None THEN Raises(AssertionError, FALSE)
    ELSE
    LET strs == IF posting.position # None
                THEN PositionStrs(posting.position[1])
                ELSE <<<<>>, <<>>>>
        cost_str == IF strs[2] # <<>>
                    THEN <<"@", " ">> \o RStripChar(LStripChar(strs[2], "{"), "}")
                    ELSE <<>>
        price_str == IF posting.price # None THEN PriceStr(posting.price[1]) ELSE <<>>
    IN  Writes(HLedgerPostingStr(FlagPosting(posting), strs[1], cost_str), FALSE)

\* sorted() orders strings by the code points of their characters: the
\* printing characters of U+0020..U+00FF in code point order (but for the
\* grave accent, which a string of this module cannot hold)
CodeOrder ==
    <<" ", "!", "\"", "#", "$", "%", "&", "'", "(", ")", "*", "+", ",", "-",
      ".", "/", "0", "1", "2", "3", "4", "5", "6", "7", "8", "9", ":", ";",
      "<", "=", ">", "?", "@", "A", "B", "C", "D", "E", "F", "G", "H", "I",
      "J", "K", "L", "M", "N", "O", "P", "Q", "R", "S", "T", "U", "V", "W",
      "X", "Y", "Z", "[", "\\", "]", "^", "_", "a", "b", "c", "d", "e", "f",
      "g", "h", "i", "j", "k", "l", "m", "n", "o", "p", "q", "r", "s", "t",
      "u", "v", "w", "x", "y", "z", "{", "|", "}", "~", " ", "¡", "¢", "£",
      "¤", "¥", "¦", "§", "¨", "©", "ª", "«", "¬", "­", "®", "¯", "°", "±",
      "²", "³", "´", "µ", "¶", "·", "¸", "¹", "º", "»", "¼", "½", "¾", "¿",
      "À", "Á", "Â", "Ã", "Ä", "Å", "Æ", "Ç", "È", "É", "Ê", "Ë", "Ì", "Í",
      "Î", "Ï", "Ð", "Ñ", "Ò", "Ó", "Ô", "Õ", "Ö", "×", "Ø", "Ù", "Ú", "Û",
      "Ü", "Ý", "Þ", "ß", "à", "á", "â", "ã", "ä", "å", "æ", "ç", "è", "é",
      "ê", "ë", "ì", "í", "î", "ï", "ð", "ñ", "ò", "ó", "ô", "õ", "ö", "÷",
      "ø", "ù", "ú", "û", "ü", "ý", "þ", "ÿ">>

Code(c) == CHOOSE i \in 1..Len(CodeOrder) : CodeOrder[i] = c

RECURSIVE StrLess(_, _)
StrLess(a, b) ==
    IF b = <<>> THEN FALSE
    ELSE IF a = <<>> THEN TRUE
    ELSE IF a[1] = b[1] THEN StrLess(Tail(a), Tail(b))
    ELSE Code(a[1]) < Code(b[1])

\* sorted(set of strings)
RECURSIVE Sorted(_)
Sorted(S) ==
    IF S = {} THEN <<>>
    ELSE LET least == CHOOSE x \in S : \A y \in S \ {x} : StrLess(x, y)
         IN  <<least>> \o Sorted(S \ {least})

\* the part of LedgerPrinter.Transaction between fill_residual_posting and
\* the loop over the postings: the header line
TransactionHeader(e) ==
    LET tags  == Sorted(e.tags)
        links == Sorted(e.links)
        strings ==
            [i \in 1..Len(tags) |-> <<";", ";", " ", "T", "a", "g", ":", " ", "#">> \o tags[i]]
            \o [i \in 1..Len(links) |->
                    <<";", ";", " ", "L", "i", "n", "k", ":", " ", "^">> \o links[i]]
            \o (IF e.payee # None /\ e.payee[1] # <<>>
                THEN <<e.payee[1] \o <<" ", "|">>>> ELSE <<>>)
            \o (IF e.narration # <<>>
                THEN <<e.narration>> ELSE <<>>)
    IN  DateStr(e.date) \o <<" ">>
        \o (IF e.flag # None THEN <<e.flag[1]>> ELSE <<>>)
        \o <<" ">> \o Join(strings, <<" ">>) \o NL

LedgerBalance(e) == <<>>

LedgerNote(e) ==
    <<";", ";", " ", "N", "o", "t", "e", ":", " ">> \o DateStr(e.date)
    \o <<" ">> \o e.account \o <<" ">> \o e.comment \o NL

LedgerDocument(e) ==
    <<";", ";", " ", "D", "o", "c", "u", "m", "e", "n", "t", ":", " ">> \o DateStr(e.date)
    \o <<" ">> \o e.account \o <<" ">> \o e.filename \o NL

LedgerPad(e) ==
    <<";", ";", " ", "P", "a", "d", ":", " ">> \o DateStr(e.date)
    \o <<" ">> \o e.account \o <<" ">> \o e.source_account \o NL

LedgerOpen(e) ==
    <<"a", "c", "c", "o", "u", "n", "t", " ">> \o LJust(e.account, OpenAccountWidth) \o NL
    \o (IF e.currencies # <<>>
        THEN <<" ", " ", "a", "s", "s", "e", "r", "t", " ">>
             \o Join([i \in 1..Len(e.currencies) |->
                        <<"c", "o", "m", "m", "o", "d", "i", "t", "y", " ", "=", "=", " ", "\"">>
                        \o e.currencies[i] \o <<"\"">>],
                     <<" ", "|", " ">>)
             \o NL
        ELSE <<>>)

LedgerClose(e) ==
    <<";", ";", " ", "C", "l", "o", "s", "e", ":", " ">> \o DateStr(e.date)
    \o <<" ", "c", "l", "o", "s", "e", " ">> \o e.account \o NL

LedgerPrice(e) ==
    quote_currency(<<"P", " ">> \o DateStr(e.date)
                   \o <<" ", "0", "0", ":", "0", "0", ":", "0", "0", " ">>
                   \o LJust(e.currency, PriceCurrencyWidth)
                   \o <<" ">> \o RJust(AmountStr(e.amount), FieldWidth) \o NL)

LedgerEvent(e) ==
    <<";", ";", " ", "E", "v", "e", "n", "t", ":", " ">> \o DateStr(e.date)
    \o <<" ", "\"">> \o e.type \o <<"\"", " ", "\"">> \o e.description \o <<"\"">> \o NL

HLedgerOpen(e) ==
    <<";", ";", " ", "O", "p", "e", "n", ":", " ">> \o DateStr(e.date)
    \o <<" ", "c", "l", "o", "s", "e", " ">> \o e.account \o NL

\* HLedgerPrinter without its own Open
HLedgerPrinterAttrsNoOpen == {"__call__", "Posting"}

\* the attributes the two classes define themselves
LedgerPrinterAttrs ==
    {"__call__", "Transaction", "Posting", "Balance", "Note", "Document", "Pad",
     "Open", "Close", "Price", "Event"}

HLedgerPrinterAttrs == {"__call__", "Posting", "Open"}

\* the class of the dialect's printer
PrinterClass(d) == IF d = "hledger" THEN "HLedgerPrinter" ELSE "LedgerPrinter"

\* getattr(cls, name): the class that supplies the attribute, along the
\* method resolution order HLedgerPrinter, LedgerPrinter; None when the
\* lookup fails (getattr then raises AttributeError)
\* NoAttr: the lookup failed
NoAttr == "no such attribute"

Resolve(cls, name) ==
    IF cls = "HLedgerPrinter" /\ name \in HLedgerPrinterAttrs THEN "HLedgerPrinter"
    ELSE IF name \in LedgerPrinterAttrs THEN "LedgerPrinter"
    ELSE NoAttr

\* the handler of class `owner` for the kind of directive e, applied to e
\* (every kind but Transaction, which is rendered in steps)
Handler(owner, e) ==
    CASE e.kind = "Balance"  -> LedgerBalance(e)
      [] e.kind = "Note"     -> LedgerNote(e)
      [] e.kind = "Document" -> LedgerDocument(e)
      [] e.kind = "Pad"      -> LedgerPad(e)
      [] e.kind = "Open"     -> IF owner = "HLedgerPrinter" THEN HLedgerOpen(e)
                                ELSE LedgerOpen(e)
      [] e.kind = "Close"    -> LedgerClose(e)
      [] e.kind = "Price"    -> LedgerPrice(e)
      [] e.kind = "Event"    -> LedgerEvent(e)

\* cls.Posting(cls, posting, oss)
PostingHandler(cls, posting, pentry) ==
    IF Resolve(cls, "Posting") = "HLedgerPrinter"
    THEN HLedgerPosting(posting, pentry)
    ELSE LedgerPosting(posting, pentry)

----------------------------------------------------------------------------
(* The inputs of the model.                                                *)

Seqs(S, n) == UNION {[1..k -> S] : k \in 0..n}

Date1 == [y |-> 2014, m |-> 11, d |-> 2]
Date2 == [y |-> 2015, m |-> 1, d |-> 31]
\* a date whose year has fewer than four digits
Date3 == [y |-> 999, m |-> 1, d |-> 2]

AcctCash == <<"A", "s", "s", "e", "t", "s", ":", "C", "a", "s", "h">>
AcctBroker == <<"A", "s", "s", "e", "t", "s", ":", "B", "r", "o", "k", "e", "r">>

CurUSD == <<"U", "S", "D">>
CurCAD == <<"C", "A", "D">>
\* a currency with digits, which quote_currency quotes
CurB2C3 == <<"B", "2", "C", "3">>

Units == [number |-> <<"5">>, currency |-> CurB2C3]
Cost == [number |-> <<"5", "2", "0", ".", "0">>, currency |-> CurUSD]
Rate == [number |-> <<"0", ".", "8", "8", "7", "9">>, currency |-> CurCAD]

Positions ==
    {None, Some([units |-> Units, cost |-> None]), Some([units |-> Units, cost |-> Some(Cost)])}

Prices == {None, Some(Rate)}

PostingUniverse ==
    {[flag |-> None, account |-> Some(AcctBroker), position |-> po, price |-> pr] :
        po \in Positions, pr \in Prices}
    \cup
    {[flag |-> Some("!"), account |-> Some(AcctCash), position |-> po, price |-> None] :
        po \in {None, Some([units |-> Units, cost |-> None])}}

Txn(flag, payee, narration, tags, links, postings) ==
    [kind |-> "Transaction", date |-> Date1, flag |-> flag, payee |-> payee,
     narration |-> narration, tags |-> tags, links |-> links, postings |-> postings]

Narration == <<"B", "u", "y", " ", "s", "t", "o", "c", "k">>

\* the transactions of the runs that render one Transaction
TxnUniverse ==
    {Txn(Some("*"), None, Narration, {}, {}, ps) :
        ps \in Seqs(PostingUniverse, MaxPostings) \ {<<>>}}

PostingAtCost ==
    [flag |-> None, account |-> Some(AcctBroker),
     position |-> Some([units |-> Units, cost |-> Some(Cost)]), price |-> None]
PostingAtPrice ==
    [flag |-> None, account |-> Some(AcctBroker),
     position |-> Some([units |-> Units, cost |-> None]), price |-> Some(Rate)]
PostingSimple ==
    [flag |-> Some("!"), account |-> Some(AcctCash),
     position |-> Some([units |-> Units, cost |-> None]), price |-> None]
PostingBare ==
    [flag |-> None, account |-> Some(AcctBroker), position |-> None, price |-> None]

\* the transactions of the runs that render a sequence of directives
ExportTxns ==
    {Txn(Some("*"), None, Narration, {}, {}, <<PostingAtCost, PostingAtPrice>>),
     Txn(None, Some(<<"J", "o", "e">>), <<>>, {<<"b">>, <<"a", "b">>}, {<<"l", "1">>},
         <<PostingSimple>>),
     Txn(Some("*"), None, Narration, {}, {}, <<PostingBare>>)}

OtherDirectives ==
    {[kind |-> "Balance", date |-> Date1, account |-> AcctCash],
     [kind |-> "Note", date |-> Date1, account |-> AcctCash,
      comment |-> <<"n", "o", "t", "e">>],
     [kind |-> "Document", date |-> Date1, account |-> AcctCash,
      filename |-> <<"d", "o", "c", ".", "p", "d", "f">>],
     [kind |-> "Pad", date |-> Date1, account |-> AcctCash, source_account |-> AcctBroker],
     [kind |-> "Open", date |-> Date2, account |-> AcctCash, currencies |-> <<>>],
     [kind |-> "Open", date |-> Date2, account |-> AcctCash,
      currencies |-> <<CurUSD, CurCAD>>],
     [kind |-> "Close", date |-> Date3, account |-> AcctCash],
     [kind |-> "Price", date |-> Date1, currency |-> CurB2C3, amount |-> Cost],
     [kind |-> "Event", date |-> Date1, type |-> <<"l", "o", "c", "a", "t", "i", "o", "n">>,
      description |-> <<"P", "a", "r", "i", "s">>],
     \* a directive of a kind neither printer has a method for
     [kind |-> "Custom", date |-> Date1]}

ExportDirectives == ExportTxns \cup OtherDirectives

Dialects == {"ledger", "hledger"}

\* the characters of the strings given to quote_currency
QAlphabet == {"A", "1", ".", "_", "a", " ", "\"", "é"}

----------------------------------------------------------------------------
(* The exporter: render_ledger and render_hledger.                         *)

InitRun ==
    /\ dialect \in Dialects
    /\ idx = 1
    /\ pc = "loop"
    /\ orig = None
    /\ entry = None
    /\ backref = "entry"
    /\ pidx = 0
    /\ oss = <<>>
    /\ file = <<>>
    /\ plines = <<>>
    /\ pseen = <<>>
    /\ log = <<>>
    /\ rendered = <<>>
    /\ raised = NoExc
    /\ qs = <<>>
    /\ qout = <<>>

\* a run over a sequence of directives
Init ==
    /\ entries \in Seqs(ExportDirectives, MaxEntries)
    /\ InitRun

\* a run over one Transaction
InitTxn ==
    /\ entries \in {<<t>> : t \in TxnUniverse}
    /\ InitRun

\* ledger_printer(entry): LedgerPrinter.__call__ / HLedgerPrinter.__call__ looks
\* the handler up by the directive's class name and calls it on a new StringIO.
\* The StringIO is made before the lookup, so it is new and empty also when
\* the lookup raises.
\* The handlers of every kind but Transaction are rendered here in one step.
Call ==
    /\ pc = "loop"
    /\ idx <= Len(entries)
    /\ LET e == entries[idx]
           owner == Resolve(PrinterClass(dialect), e.kind)
       IN  IF owner = NoAttr
           THEN /\ pc' = "raised"
                /\ raised' = AttributeError
                /\ oss' = <<>>
                /\ UNCHANGED orig
           ELSE IF e.kind = "Transaction"
           THEN /\ pc' = "txn"
                /\ orig' = e
                /\ oss' = <<>>
                /\ UNCHANGED raised
           ELSE /\ pc' = "write"
                /\ oss' = Handler(owner, e)
                /\ UNCHANGED <<raised, orig>>
    /\ entry' = None
    /\ pidx' = 0
    /\ plines' = <<>>
    /\ pseen' = <<>>
    /\ log' = <<>>
    /\ UNCHANGED <<dialect, entries, idx, backref, file, rendered, qs, qout>>

\* LedgerPrinter.Transaction, first statement:
\* entry = interpolate.fill_residual_posting(entry, ROUNDING_ACCOUNT).
\* Whether the postings of a new transaction refer back to it or to the
\* original one is the balancer's business: both are possible.
TransactionFill ==
    /\ pc = "txn"
    /\ \E r \in fill_residual_posting(orig, ROUNDING_ACCOUNT) :
       \E b \in {"orig", "entry"} :
          /\ (r = orig => b = "entry")
          /\ entry' = r
          /\ backref' = b
    /\ log' = Append(log, [call |-> "fill_residual_posting", arg |-> ROUNDING_ACCOUNT])
    /\ pc' = "header"
    /\ UNCHANGED <<dialect, entries, idx, orig, pidx, oss, file, plines, pseen,
                   rendered, raised, qs, qout>>

\* LedgerPrinter.Transaction: tags, links, payee and narration, written as
\* the header line
TransactionWriteHeader ==
    /\ pc = "header"
    /\ oss' = oss \o TransactionHeader(entry)
    /\ pidx' = 1
    /\ pc' = IF entry.postings = <<>> THEN "write" ELSE "postings"
    /\ UNCHANGED <<dialect, entries, idx, orig, entry, backref, file, plines, pseen,
                   log, rendered, raised, qs, qout>>

\* the loop over the postings of the transaction as it was before the balancer
TransactionPostingsOfOriginal(original, filled) == original.postings

\* the postings LedgerPrinter.Transaction loops over: those of the local
\* `entry`, which the first statement rebound to the balancer's result
TransactionPostings(original, filled) == filled.postings

\* posting.entry
PostingEntry == IF backref = "orig" THEN orig ELSE entry

\* one turn of `for posting in entry.postings: cls.Posting(cls, posting, oss)`
TransactionPosting ==
    /\ pc = "postings"
    /\ pidx <= Len(TransactionPostings(orig, entry))
    /\ LET posting == TransactionPostings(orig, entry)[pidx]
           r == PostingHandler(PrinterClass(dialect), posting, PostingEntry)
       IN  /\ pseen' = Append(pseen, posting)
           /\ log' = log \o <<[call |-> "Posting", arg |-> <<>>]>>
                         \o (IF r.classified
                             THEN <<[call |-> "postings_by_type", arg |-> <<>>]>>
                             ELSE <<>>)
           /\ IF r.exc # NoExc
              THEN /\ pc' = "raised"
                   /\ raised' = r.exc
                   /\ UNCHANGED <<oss, plines, pidx>>
              ELSE /\ oss' = oss \o r.text
                   /\ plines' = Append(plines, r.text)
                   /\ pidx' = pidx + 1
                   /\ pc' = IF pidx = Len(TransactionPostings(orig, entry))
                            THEN "write" ELSE "postings"
                   /\ UNCHANGED raised
    /\ UNCHANGED <<dialect, entries, idx, orig, entry, backref, file, rendered, qs, qout>>

\* file.write(ledger_printer(entry))
WriteRecord ==
    /\ pc = "write"
    /\ file' = file \o oss
    /\ rendered' = Append(rendered, [directive |-> entries[idx], text |-> oss])
    /\ pc' = "newline"
    /\ UNCHANGED <<dialect, entries, idx, orig, entry, backref, pidx, oss, plines,
                   pseen, log, raised, qs, qout>>

\* no separator written after a record
SeparatorMissing == <<>>

\* what the exporter writes after each record
Separator == <<"\n">>

\* file.write('\n'), and the loop goes on to the next directive
WriteNewline ==
    /\ pc = "newline"
    /\ file' = file \o Separator
    /\ idx' = idx + 1
    /\ pc' = "loop"
    /\ UNCHANGED <<dialect, entries, orig, entry, backref, pidx, oss, plines, pseen,
                   log, rendered, raised, qs, qout>>

\* the loop over the directives ends and the exporter returns
Return ==
    /\ pc = "loop"
    /\ idx > Len(entries)
    /\ pc' = "done"
    /\ UNCHANGED <<dialect, entries, idx, orig, entry, backref, pidx, oss, file,
                   plines, pseen, log, rendered, raised, qs, qout>>

Next ==
    \/ Call
    \/ TransactionFill
    \/ TransactionWriteHeader
    \/ TransactionPosting
    \/ WriteRecord
    \/ WriteNewline
    \/ Return

Spec == Init /\ [][Next]_vars

SpecTxn == InitTxn /\ [][Next]_vars

----------------------------------------------------------------------------
(* quote_currency applied to a string, and to its own result.              *)

InitQuote ==
    /\ qs \in Seqs(QAlphabet, MaxQLen)
    /\ qout = <<>>
    /\ dialect = "ledger"
    /\ entries = <<>>
    /\ idx = 1
    /\ pc = "idle"
    /\ orig = None
    /\ entry = None
    /\ backref = "entry"
    /\ pidx = 0
    /\ oss = <<>>
    /\ file = <<>>
    /\ plines = <<>>
    /\ pseen = <<>>
    /\ log = <<>>
    /\ rendered = <<>>
    /\ raised = NoExc

QuoteCurrency ==
    /\ pc = "idle"
    /\ Len(qout) < MaxQuoteApps
    /\ qout' = Append(qout, quote_currency(IF qout = <<>> THEN qs ELSE qout[Len(qout)]))
    /\ UNCHANGED <<dialect, entries, idx, pc, orig, entry, backref, pidx, oss, file,
                   plines, pseen, log, rendered, raised, qs>>

NextQuote == QuoteCurrency

SpecQuote == InitQuote /\ [][NextQuote]_vars

----------------------------------------------------------------------------
(* Vocabulary of the claims. The classes of a posting are those of the     *)
(* glossary, stated on the posting itself and not through                  *)
(* postings_by_type.                                                       *)

AtCostPosting(p) == p.position # None /\ p.position[1].cost # None
AtPricePosting(p) == p.price # None /\ ~AtCostPosting(p)
SimplePosting(p) == p.price = None /\ ~AtCostPosting(p)

\* a Transaction is being rendered, or was the last directive rendered
TxnStarted == pc \in {"header", "postings", "write", "newline", "done", "raised"}
\* the loop over the postings has ended, normally or by an exception
TxnEnded == pc \in {"write", "newline", "done", "raised"}

AmountOf(p) == IF p.position # None THEN AmountStr(p.position[1].units) ELSE <<>>
CostOf(p) ==
    IF AtCostPosting(p) THEN <<"{">> \o AmountStr(p.position[1].cost[1]) \o <<"}">> ELSE <<>>

\* the index of the first newline at or after i, or 0
LineEnd(text, i) ==
    LET ends == {j \in i..Len(text) : text[j] = "\n"}
    IN  IF ends = {} THEN 0
        ELSE CHOOSE j \in ends : \A k \in ends : j <= k

\* the blank lines of the text: the newlines that stand at the start of a line
BlankLines(text) ==
    {i \in 1..Len(text) : text[i] = "\n" /\ (i = 1 \/ text[i - 1] = "\n")}

\* the k-th blank line, and 0 for k = 0
BlankLine(text, k) ==
    IF k = 0 THEN 0
    ELSE CHOOSE b \in BlankLines(text) :
            Cardinality({c \in BlankLines(text) : c < b}) = k - 1

\* the text cut at blank lines: every blank line ends one record, which is
\* the lines since the blank line before it. Text after the last blank line
\* is reported as a record marked "unterminated".
ParseRecords(text) ==
    LET n == Cardinality(BlankLines(text))
        recs == [k \in 1..n |->
                    SubSeq(text, BlankLine(text, k - 1) + 1, BlankLine(text, k) - 1)]
        rest == SubSeq(text, BlankLine(text, n) + 1, Len(text))
    IN  IF rest = <<>> THEN recs ELSE Append(recs, rest \o <<"unterminated">>)

NewlineCount(text) == Cardinality({i \in 1..Len(text) : text[i] = "\n"})

FirstLine(text) == SubSeq(text, 1, LineEnd(text, 1))

IsCommentLine(text) ==
    /\ Len(text) >= 2
    /\ text[1] = ";"
    /\ text[Len(text)] = "\n"
    /\ NewlineCount(text) = 1

CallsOf(name) == {i \in 1..Len(log) : log[i].call = name}

EquityRounding ==
    <<"E", "q", "u", "i", "t", "y", ":", "R", "o", "u", "n", "d", "i", "n", "g">>

----------------------------------------------------------------------------
(* The claims.                                                             *)

\* C1: when the exporter has finished, the sink holds one record per
\* directive, in input order, and cutting the sink at its blank lines gives
\* back exactly these records: consecutive records are separated by exactly
\* one blank line (an empty Balance record lies between two blank lines).
ExporterRecordsInOrder ==
    pc = "done" =>
        /\ Len(rendered) = Len(entries)
        /\ \A k \in 1..Len(entries) : rendered[k].directive = entries[k]
        /\ ParseRecords(file) = [k \in 1..Len(rendered) |-> rendered[k].text]

ExporterRecordsWitness ==
    /\ pc = "done"
    /\ Len(entries) = 2
    /\ entries[1].kind = "Balance"
    /\ entries[2].kind = "Transaction"
    /\ Len(rendered) = 2
    /\ rendered[1].text = <<>>
    /\ NewlineCount(rendered[2].text) >= 2
    /\ file = NL \o rendered[2].text \o NL

\* C2: rendering a Transaction calls fill_residual_posting exactly once, on
\* 'Equity:Rounding', before any posting is classified or rendered, and the
\* postings handed to Posting are those of the transaction it returned.
BalancerCalledOnceBeforePostings ==
    /\ pc \in {"loop", "txn"} /\ idx = 1 => log = <<>>
    /\ TxnStarted =>
        /\ Cardinality(CallsOf("fill_residual_posting")) = 1
        /\ log[1] = [call |-> "fill_residual_posting", arg |-> EquityRounding]
        /\ Len(pseen) <= Len(entry.postings)
        /\ pseen = SubSeq(entry.postings, 1, Len(pseen))
    /\ pc \in {"write", "newline", "done"} =>
        /\ pseen = entry.postings
        /\ Len(plines) = Len(entry.postings)

BalancerCalledWitness ==
    /\ pc = "done"
    /\ dialect = "ledger"
    /\ Len(entry.postings) = Len(orig.postings) + 1
    /\ CallsOf("postings_by_type") # {}
    /\ Len(plines) = Len(entry.postings)

\* C3: in the Ledger dialect, once a Transaction with at least one at-cost
\* and one at-price posting has been rendered, every at-cost posting without
\* explicit Price has its line, with the price field '@ <cost>'.
SynthesizedPriceWhenMixed ==
    (/\ dialect = "ledger"
     /\ TxnEnded
     /\ \E i \in 1..Len(orig.postings) : AtCostPosting(orig.postings[i])
     /\ \E i \in 1..Len(orig.postings) : AtPricePosting(orig.postings[i]))
    => \A k \in 1..Len(entry.postings) :
          LET p == entry.postings[k]
          IN  AtCostPosting(p) /\ p.price = None =>
                /\ k <= Len(plines)
                /\ plines[k] = LedgerPostingStr(FlagPosting(p), AmountOf(p), CostOf(p),
                                     <<"@", " ">> \o AmountStr(p.position[1].cost[1]))

\* C4: in the Ledger dialect, in a Transaction with no at-price posting,
\* every rendered posting without explicit Price has an empty price field,
\* and a posting with an explicit Price shows that Price, never its cost.
NoSynthesizedPriceWithoutAtPrice ==
    (/\ dialect = "ledger"
     /\ TxnStarted
     /\ \A i \in 1..Len(entry.postings) : ~AtPricePosting(entry.postings[i]))
    => \A k \in 1..Len(plines) :
          LET p == entry.postings[k]
          IN  plines[k] = LedgerPostingStr(FlagPosting(p), AmountOf(p), CostOf(p),
                              IF p.price = None THEN <<>>
                              ELSE <<"@", " ">> \o AmountStr(p.price[1]))

NoSynthesizedPriceWitness ==
    /\ dialect = "ledger"
    /\ pc = "write"
    /\ \A i \in 1..Len(entry.postings) : ~AtPricePosting(entry.postings[i])
    /\ \E i \in 1..Len(entry.postings) :
          AtCostPosting(entry.postings[i]) /\ entry.postings[i].price # None
    /\ \E i \in 1..Len(plines) :
          AtCostPosting(entry.postings[i]) /\ entry.postings[i].price = None

\* C5: for every transaction postings_by_type returns three sequences that
\* partition the postings in input order: at_cost holds the postings with a
\* cost, at_price those with a Price and no cost, simple every other one.
ClassifierPartitions ==
    pc \in {"header", "postings"} =>
        LET by == postings_by_type(entry)
        IN  /\ by.exc = NoExc
            /\ by.at_cost = SelectSeq(entry.postings, AtCostPosting)
            /\ by.at_price = SelectSeq(entry.postings, AtPricePosting)
            /\ by.simple = SelectSeq(entry.postings, SimplePosting)

\* C6: quote_currency applied to its own result changes nothing.
QuoteCurrencyIdempotent ==
    Len(qout) >= 2 => qout[2] = qout[1]

\* C7: a directive of a kind without handler never ends the run with an
\* exception: its record is a comment line or empty, and the exporter goes
\* on with the directives after it.
UnknownKindNeverRaises ==
    \A k \in 1..Len(entries) :
        entries[k].kind \notin LedgerPrinterAttrs =>
            /\ ~(pc = "raised" /\ idx = k)
            /\ k <= Len(rendered) =>
                  (rendered[k].text = <<>> \/ IsCommentLine(rendered[k].text))

\* C8: in both dialects, once a Transaction has been rendered, every posting
\* with an account and neither Position nor Price has its line, which is the
\* optional flag and the account, with nothing after them.
BarePostingRenders ==
    (pc \in {"write", "raised"} /\ entry # None) =>
        \A k \in 1..Len(entry.postings) :
            LET p == entry.postings[k]
            IN  p.position = None /\ p.price = None =>
                  /\ k <= Len(plines)
                  /\ plines[k] = <<" ", " ">>
                                 \o (IF p.flag # None THEN <<p.flag[1], " ">> ELSE <<>>)
                                 \o p.account[1] \o NL

\* C9: in the HLedger dialect, a rendered posting with an explicit Price and
\* no cost shows '@ <price>' in the slot after the amount.
HLedgerShowsExplicitPrice ==
    (dialect = "hledger" /\ TxnStarted) =>
        \A k \in 1..Len(plines) :
            LET p == entry.postings[k]
            IN  AtPricePosting(p) =>
                  plines[k] = HLedgerPostingStr(FlagPosting(p), AmountOf(p),
                                  <<"@", " ">> \o AmountStr(p.price[1]))

\* C10: a record of kind Balance, Close, Note, Document, Pad, Price or Event
\* is the record of the baseline printer in both dialects, Balance is empty,
\* a Transaction's header line is the baseline's, and the HLedger record of
\* Open is one comment line that does not depend on the currencies.
DialectsAgreeOutsidePostingsAndOpen ==
    \A k \in 1..Len(rendered) :
        LET e == rendered[k].directive
            t == rendered[k].text
        IN  /\ e.kind \in {"Balance", "Close", "Note", "Document", "Pad", "Price", "Event"}
                => t = Handler("LedgerPrinter", e)
            /\ e.kind = "Balance" => t = <<>>
            /\ e.kind = "Transaction" => FirstLine(t) = TransactionHeader(e)
            /\ (e.kind = "Open" /\ dialect = "hledger") =>
                  /\ IsCommentLine(t)
                  /\ t = Handler("HLedgerPrinter", [e EXCEPT !.currencies = <<>>])
            /\ (e.kind = "Open" /\ dialect = "ledger") =>
                  t = Handler("LedgerPrinter", e)

DialectsAgreeWitness ==
    /\ dialect = "hledger"
    /\ pc = "done"
    /\ Len(rendered) >= 2
    /\ rendered[1].directive.kind = "Close"
    /\ rendered[2].directive.kind = "Open"
    /\ rendered[2].directive.currencies # <<>>

====
